---- MODULE Spec2Model ----
(***************************************************************************)
(* Model of the baltic-indices-data updaters:                              *)
(*   update_etf_holdings.py  categorize_holding, extract_month_year,       *)
(*                           sort_holdings, process_etf, print_summary,    *)
(*                           main                                          *)
(*   update_indices.py       update_csv, main                              *)
(*                                                                         *)
(* Text is modelled character by character: a string is a sequence of      *)
(* one-character strings, so that lower(), the substring tests and the     *)
(* regular expression are computed on the characters, as the code does.    *)
(* The float priorities of CATEGORY_ORDER (3.5, 3.6) are kept exact by     *)
(* counting in tenths: 35 stands for 3.5, 990 for 99.                      *)
(***************************************************************************)
EXTENDS Integers, Sequences, FiniteSets, TLC

VARIABLES
    arg_name,     \* categorize_holding / extract_month_year: the name passed in
    arg_etf,      \* categorize_holding: the etf_code passed in
    ret_cat,      \* what categorize_holding returned
    ret_date,     \* what extract_month_year returned
    pc,           \* update_etf_holdings.main: position in the run
    master_df,    \* the master table download_master_csv returned
    etf_in,       \* per fund: the table process_etf handed to sort_holdings
    out_file,     \* per fund: the rows saved to the fund's CSV file
    summary,      \* per fund: what print_summary reported per category
    result,       \* per fund: what process_etf returned
    csv_file,     \* update_indices: the stored index file, [exists, rows]
    n_calls,      \* update_indices: number of update_csv calls so far
    supplied      \* update_indices: per date, the values of the last call giving it

vars == <<arg_name, arg_etf, ret_cat, ret_date, pc, master_df, etf_in, out_file,
          summary, result, csv_file, n_calls, supplied>>

nameVars == <<arg_name, arg_etf, ret_cat, ret_date>>
etfVars == <<pc, master_df, etf_in, out_file, summary, result>>
csvVars == <<csv_file, n_calls, supplied>>

\* re.search found nothing
NoMatch == <<>>

\* F applied to the value of v, v evaluated once (an assignment to a local)
With(v, F(_)) == CHOOSE r \in {F(x) : x \in {v}} : TRUE

(***************************************************************************)
(* Characters and strings                                                  *)
(***************************************************************************)
Letters == {"a","b","c","d","e","f","g","h","i","j","k","l","m",
            "n","o","p","q","r","s","t","u","v","w","x","y","z"}

Digits == {"0","1","2","3","4","5","6","7","8","9"}

\* [\s\-] of month_pattern, over the characters that occur in the names
SepChars == {" ", "-"}

DigitVal == [c \in Digits |->
    CASE c = "0" -> 0 [] c = "1" -> 1 [] c = "2" -> 2 [] c = "3" -> 3
      [] c = "4" -> 4 [] c = "5" -> 5 [] c = "6" -> 6 [] c = "7" -> 7
      [] c = "8" -> 8 [] c = "9" -> 9]

\* str.lower() on one character (the capitals that occur in the names)
LowerChar(c) ==
    CASE c = "C" -> "c" [] c = "M" -> "m" [] c = "T" -> "t" [] c = "D" -> "d"
      [] c = "J" -> "j" [] c = "I" -> "i"
      [] OTHER -> c

\* str.lower()
Lower(s) == [i \in 1..Len(s) |-> LowerChar(s[i])]

\* needle in hay
Contains(hay, needle) ==
    \E i \in 1..(Len(hay) - Len(needle) + 1) :
        \A j \in 1..Len(needle) : hay[i + j - 1] = needle[j]

\* int(year_str)
RECURSIVE ParseInt(_)
ParseInt(ds) ==
    IF ds = <<>> THEN 0
    ELSE 10 * ParseInt(SubSeq(ds, 1, Len(ds) - 1)) + DigitVal[ds[Len(ds)]]

(***************************************************************************)
(* update_etf_holdings.py: constants                                       *)
(***************************************************************************)
CATEGORY_ORDER ==
    [capesize |-> 10, panamax |-> 20, supramax |-> 30, td3c |-> 35,
     td20 |-> 36, cash |-> 40, invesco |-> 50, other |-> 990]

MONTH_MAP ==
    (<<"j","a","n">> :> 1) @@ (<<"f","e","b">> :> 2) @@ (<<"m","a","r">> :> 3) @@
    (<<"a","p","r">> :> 4) @@ (<<"m","a","y">> :> 5) @@ (<<"j","u","n">> :> 6) @@
    (<<"j","u","l">> :> 7) @@ (<<"a","u","g">> :> 8) @@ (<<"s","e","p">> :> 9) @@
    (<<"o","c","t">> :> 10) @@ (<<"n","o","v">> :> 11) @@ (<<"d","e","c">> :> 12)

\* the alternation (jan|feb|...|dec) of month_pattern
PatternMonths ==
    { <<"j","a","n">>, <<"f","e","b">>, <<"m","a","r">>, <<"a","p","r">>,
      <<"m","a","y">>, <<"j","u","n">>, <<"j","u","l">>, <<"a","u","g">>,
      <<"s","e","p">>, <<"o","c","t">>, <<"n","o","v">>, <<"d","e","c">> }

kw_capesize == <<"c","a","p","e","s","i","z","e">>
kw_panamax == <<"p","a","n","a","m","a","x">>
kw_supramax == <<"s","u","p","r","a","m","a","x">>
kw_td3c == <<"t","d","3","c">>
kw_td20 == <<"t","d","2","0">>
kw_cash == <<"c","a","s","h">>
kw_invesco == <<"i","n","v","e","s","c","o">>
kw_td3c_long ==
    <<"m","i","d","d","l","e"," ","e","a","s","t"," ","g","u","l","f"," ",
      "t","o"," ","c","h","i","n","a">>
kw_td20_long ==
    <<"w","e","s","t"," ","a","f","r","i","c","a"," ","t","o"," ",
      "c","o","n","t","i","n","e","n","t">>

Cat(label) == [label |-> label, priority |-> CATEGORY_ORDER[label]]

(***************************************************************************)
(* categorize_holding                                                      *)
(***************************************************************************)
\* a faulty categorize_holding: the name is not lowered before the tests
categorize_holding_no_lower(name, etf_code) ==
    IF etf_code = "BWET" THEN
        IF Contains(name, kw_td3c) \/ Contains(name, kw_td3c_long) THEN Cat("td3c")
        ELSE IF Contains(name, kw_td20) \/ Contains(name, kw_td20_long) THEN Cat("td20")
        ELSE IF Contains(name, kw_cash) THEN Cat("cash")
        ELSE IF Contains(name, kw_invesco) THEN Cat("invesco")
        ELSE Cat("other")
    ELSE
        IF Contains(name, kw_capesize) THEN Cat("capesize")
        ELSE IF Contains(name, kw_panamax) THEN Cat("panamax")
        ELSE IF Contains(name, kw_supramax) THEN Cat("supramax")
        ELSE IF Contains(name, kw_cash) THEN Cat("cash")
        ELSE IF Contains(name, kw_invesco) THEN Cat("invesco")
        ELSE Cat("other")

\* a faulty categorize_holding: cash and invesco are tested first
categorize_holding_cash_first(name, etf_code) ==
    With(Lower(name), LAMBDA name_lower :
    IF Contains(name_lower, kw_cash) THEN Cat("cash")
    ELSE IF Contains(name_lower, kw_invesco) THEN Cat("invesco")
    ELSE IF etf_code = "BWET" THEN
        IF Contains(name_lower, kw_td3c) \/ Contains(name_lower, kw_td3c_long)
            THEN Cat("td3c")
        ELSE IF Contains(name_lower, kw_td20) \/ Contains(name_lower, kw_td20_long)
            THEN Cat("td20")
        ELSE Cat("other")
    ELSE
        IF Contains(name_lower, kw_capesize) THEN Cat("capesize")
        ELSE IF Contains(name_lower, kw_panamax) THEN Cat("panamax")
        ELSE IF Contains(name_lower, kw_supramax) THEN Cat("supramax")
        ELSE Cat("other"))

categorize_holding(name, etf_code) ==
    With(Lower(name), LAMBDA name_lower :
    IF etf_code = "BWET" THEN
        IF Contains(name_lower, kw_td3c) \/ Contains(name_lower, kw_td3c_long)
            THEN Cat("td3c")
        ELSE IF Contains(name_lower, kw_td20) \/ Contains(name_lower, kw_td20_long)
            THEN Cat("td20")
        ELSE IF Contains(name_lower, kw_cash) THEN Cat("cash")
        ELSE IF Contains(name_lower, kw_invesco) THEN Cat("invesco")
        ELSE Cat("other")
    ELSE
        IF Contains(name_lower, kw_capesize) THEN Cat("capesize")
        ELSE IF Contains(name_lower, kw_panamax) THEN Cat("panamax")
        ELSE IF Contains(name_lower, kw_supramax) THEN Cat("supramax")
        ELSE IF Contains(name_lower, kw_cash) THEN Cat("cash")
        ELSE IF Contains(name_lower, kw_invesco) THEN Cat("invesco")
        ELSE Cat("other"))

(***************************************************************************)
(* extract_month_year: re.search(month_pattern, name_lower)                *)
(***************************************************************************)
\* number of characters of class cls from position p on, at most cap
RECURSIVE RunLen(_, _, _, _)
RunLen(s, p, cls, cap) ==
    IF cap = 0 \/ p > Len(s) \/ s[p] \notin cls THEN 0
    ELSE 1 + RunLen(s, p + 1, cls, cap - 1)

\* (\d{2,4}) at position p: the greedy digit run, or <<>> when it is too short
DigitsAt(s, p) ==
    LET d == RunLen(s, p, Digits, 4) IN
    IF d >= 2 THEN SubSeq(s, p, p + d - 1) ELSE <<>>

\* [\s\-]?(\d{2,4}) at position p: the separator is tried first (greedy ?)
TailAt(s, p) ==
    IF p <= Len(s) /\ s[p] \in SepChars /\ DigitsAt(s, p + 1) # <<>>
        THEN DigitsAt(s, p + 1)
        ELSE DigitsAt(s, p)

\* the whole pattern anchored at position i: <<group(1), group(2)>> or NoMatch.
\* [a-z]* is greedy and gives letters back one at a time (backtracking).
MatchAt(s, i) ==
    IF i + 2 > Len(s) \/ SubSeq(s, i, i + 2) \notin PatternMonths THEN NoMatch
    ELSE
        LET most == RunLen(s, i + 3, Letters, Len(s)) IN
        With({k \in 0..most : TailAt(s, i + 3 + k) # <<>>}, LAMBDA good :
            IF good = {} THEN NoMatch
            ELSE LET k == CHOOSE x \in good : \A y \in good : y <= x
                 IN  <<SubSeq(s, i, i + 2), TailAt(s, i + 3 + k)>>)

\* re.search: the leftmost position where the pattern matches
Search(s) ==
    With({i \in 1..Len(s) : MatchAt(s, i) # NoMatch}, LAMBDA hits :
        IF hits = {} THEN NoMatch
        ELSE MatchAt(s, CHOOSE i \in hits : \A j \in hits : i <= j))

NoDate == [month |-> 99, year |-> 9999]

extract_month_year(name) ==
    With(Lower(name), LAMBDA name_lower :
    With(Search(name_lower), LAMBDA match :
        IF match # NoMatch THEN
            LET month_abbr == match[1]
                year_str == match[2]
                month_num == IF month_abbr \in DOMAIN MONTH_MAP
                             THEN MONTH_MAP[month_abbr] ELSE 99
                year == IF Len(year_str) = 2 THEN 2000 + ParseInt(year_str)
                        ELSE ParseInt(year_str)
            IN  [month |-> month_num, year |-> year]
        ELSE NoDate))

(***************************************************************************)
(* The names the two functions are applied to: every concatenation of at   *)
(* most MaxPieces pieces.  The pieces are the keywords of both funds, two  *)
(* month abbreviations, the two separators and digit groups from which     *)
(* 2-, 3- and 4-digit years arise.                                         *)
(***************************************************************************)
MaxPieces == 3

Pieces ==
    { <<"C","a","p","e","s","i","z","e">>, kw_panamax, kw_supramax,
      <<"T","D","3","C">>, kw_td20, kw_td3c_long, kw_td20_long,
      kw_cash, <<"I","n","v","e","s","c","o">>,
      <<"M","a","r">>, <<"d","e","c">>, <<" ">>, <<"-">>,
      <<"2">>, <<"2","6">>, <<"2","0","2","7">> }

RECURSIVE Concat(_)
Concat(ps) == IF ps = <<>> THEN <<>> ELSE Head(ps) \o Concat(Tail(ps))

\* name is made of at most MaxPieces pieces
IsName(name) ==
    \E n \in 0..MaxPieces : \E ps \in [1..n -> Pieces] : name = Concat(ps)

EtfCodes == {"BDRY", "BWET"}

\* the function has not been called yet
CatPending == [label |-> "pending", priority |-> -1]
DatePending == [month |-> 0, year |-> -1]

(***************************************************************************)
(* Idle values of the variables a specification does not use               *)
(***************************************************************************)
\* os.path.exists(filepath) is false
NoFile == [exists |-> FALSE, rows |-> <<>>]

NameIdle ==
    /\ arg_name = <<>>
    /\ arg_etf = "BDRY"
    /\ ret_cat = CatPending
    /\ ret_date = DatePending

(***************************************************************************)
(* update_indices.py: update_csv                                           *)
(* A row of an index table is [Date, Index]: the date as the text          *)
(* dd-mm-YYYY that scrape_index stores, and the index value.               *)
(***************************************************************************)
DigitChar == [n \in 0..9 |->
    CASE n = 0 -> "0" [] n = 1 -> "1" [] n = 2 -> "2" [] n = 3 -> "3"
      [] n = 4 -> "4" [] n = 5 -> "5" [] n = 6 -> "6" [] n = 7 -> "7"
      [] n = 8 -> "8" [] n = 9 -> "9"]

\* date.strftime('%d-%m-%Y')
Strftime(date) ==
    <<DigitChar[date.d \div 10], DigitChar[date.d % 10], "-",
      DigitChar[date.m \div 10], DigitChar[date.m % 10], "-",
      DigitChar[date.y \div 1000], DigitChar[(date.y \div 100) % 10],
      DigitChar[(date.y \div 10) % 10], DigitChar[date.y % 10]>>

\* pd.to_datetime(text, format='%d-%m-%Y')
ToDatetime(text) ==
    [d |-> ParseInt(SubSeq(text, 1, 2)), m |-> ParseInt(SubSeq(text, 4, 5)),
     y |-> ParseInt(SubSeq(text, 7, 10))]

\* the order of two timestamps
DateLess(a, b) ==
    \/ a.y < b.y
    \/ a.y = b.y /\ a.m < b.m
    \/ a.y = b.y /\ a.m = b.m /\ a.d < b.d

\* the code point of a character of a date text
Ord(c) == IF c = "-" THEN 45 ELSE 48 + DigitVal[c]

\* a < b for two texts: the first differing character decides
StrLess(a, b) ==
    \E i \in 1..Len(b) :
        /\ \A j \in 1..(i - 1) : j <= Len(a) /\ a[j] = b[j]
        /\ \/ i > Len(a)
           \/ i <= Len(a) /\ Ord(a[i]) < Ord(b[i])

\* drop_duplicates(subset=['Date_parsed'], keep='last')
DropDuplicatesKeepLast(rows) ==
    SelectSeq([i \in 1..Len(rows) |-> [row |-> rows[i], pos |-> i]],
              LAMBDA x : \A j \in (x.pos + 1)..Len(rows) :
                            ToDatetime(rows[j].Date) # ToDatetime(x.row.Date))

\* the rearrangements of rows
Rearrangements(rows) ==
    { [i \in 1..Len(rows) |-> rows[f[i]]] :
        f \in { g \in [1..Len(rows) -> 1..Len(rows)] :
                  \A i, j \in 1..Len(rows) : i # j => g[i] # g[j] } }

\* sort_values('Date_parsed'): ascending timestamps.  The single-column sort
\* is a quicksort, not stable: rows of equal key may come in any order.
SortByParsed(rows) ==
    { p \in Rearrangements(rows) :
        \A i \in 1..(Len(p) - 1) :
            ~DateLess(ToDatetime(p[i + 1].Date), ToDatetime(p[i].Date)) }

\* sort_values('Date'): ascending texts, rows of equal key in any order
SortByText(rows) ==
    { p \in Rearrangements(rows) :
        \A i \in 1..(Len(p) - 1) : ~StrLess(p[i + 1].Date, p[i].Date) }

\* the tables update_csv may write, given the stored file and new_data
Combined(file, new_data) ==
    IF file.exists THEN
        With(DropDuplicatesKeepLast(file.rows \o new_data), LAMBDA kept :
            SortByParsed([i \in 1..Len(kept) |-> kept[i].row]))
    ELSE SortByText(new_data)

\* The tables scrape_index can return for the file: at most MaxNew rows, any
\* order, a date possibly more than once.
MaxNew == 2
MaxCalls == 2

ScrapedDates ==
    { [y |-> 2025, m |-> 12, d |-> 31], [y |-> 2026, m |-> 1, d |-> 1],
      [y |-> 2026, m |-> 1, d |-> 2], [y |-> 2026, m |-> 2, d |-> 1] }

DateTexts == { Strftime(date) : date \in ScrapedDates }

NewData ==
    UNION { [1..n -> [Date : DateTexts, Index : {1, 2}]] : n \in 1..MaxNew }

CsvIdle ==
    /\ csv_file = NoFile
    /\ n_calls = 0
    /\ supplied = [t \in DateTexts |-> {}]

\* main of update_indices.py calls update_csv when the scrape gave rows
update_csv(new_data) ==
    /\ n_calls < MaxCalls
    /\ n_calls' = n_calls + 1
    /\ \/ /\ csv_file.exists
          /\ \E combined \in Combined(csv_file, new_data) :
                csv_file' = [exists |-> TRUE, rows |-> combined]
       \/ /\ ~csv_file.exists
          /\ \E combined \in Combined(csv_file, new_data) :
                csv_file' = [exists |-> TRUE, rows |-> combined]
    /\ supplied' = [t \in DateTexts |->
                      IF \E i \in 1..Len(new_data) : new_data[i].Date = t
                      THEN {new_data[i].Index : i \in
                              {k \in 1..Len(new_data) : new_data[k].Date = t}}
                      ELSE supplied[t]]
    /\ UNCHANGED <<nameVars, etfVars>>

(***************************************************************************)
(* SpecName: the two pure functions applied to a name, in the order of     *)
(* the loop body of sort_holdings (categorize_holding, extract_month_year) *)
(***************************************************************************)
CallCategorize ==
    /\ ret_cat = CatPending
    /\ ret_cat' = categorize_holding(arg_name, arg_etf)
    /\ UNCHANGED <<arg_name, arg_etf, ret_date>>
    /\ UNCHANGED <<etfVars, csvVars>>

CallExtract ==
    /\ ret_cat # CatPending
    /\ ret_date = DatePending
    /\ ret_date' = extract_month_year(arg_name)
    /\ UNCHANGED <<arg_name, arg_etf, ret_cat>>
    /\ UNCHANGED <<etfVars, csvVars>>

(***************************************************************************)
(* Tables.  A table is [cols, rows]: the set of its column names and the   *)
(* sequence of its rows.  A row carries its index label (the pandas index, *)
(* which to_csv(index=False) does not write) and the cells the code reads: *)
(* Account, Name (column SecurityName, renamed Name) and MarketValue       *)
(* (renamed Market_Value).  A cell is <<v>>, or <<>> when the value is     *)
(* missing (NaN).                                                          *)
(***************************************************************************)
NoTable == [cols |-> {}, rows |-> <<>>]

MasterCols ==
    {"Date", "Account", "StockTicker", "CUSIP", "SecurityName", "Shares",
     "Price", "MarketValue", "Weightings"}

\* column_mapping of process_etf
column_mapping(c) ==
    CASE c = "Account" -> "ETF"
      [] c = "StockTicker" -> "Ticker"
      [] c = "SecurityName" -> "Name"
      [] c = "Shares" -> "Lots"
      [] c = "MarketValue" -> "Market_Value"
      [] OTHER -> c

desired_cols ==
    {"Name", "Ticker", "CUSIP", "Lots", "Price", "Market_Value", "Weightings"}

\* str.upper() on the Account cell
Upper(a) == CASE a = "bwet" -> "BWET" [] a = "bdry" -> "BDRY" [] OTHER -> a

\* the key sort_holdings attaches to a row; nan: the merge found no partner
NaNKey == [nan |-> TRUE, cat_priority |-> 0, year |-> 0, month |-> 0]

SortKey(name, etf_code) ==
    With(categorize_holding(name, etf_code), LAMBDA cat :
    With(extract_month_year(name), LAMBDA date :
        [nan |-> FALSE, cat_priority |-> cat.priority,
         year |-> date.year, month |-> date.month]))

\* row.get('SecurityName', row.get('Name', ''))
RowName(df, row) ==
    IF "SecurityName" \in df.cols \/ "Name" \in df.cols THEN row.Name ELSE <<>>

\* sort_values(by=[cat_priority, year, month], ascending): NaN keys go last
KeyLess(a, b) ==
    IF a.nan THEN FALSE
    ELSE IF b.nan THEN TRUE
    ELSE \/ a.cat_priority < b.cat_priority
         \/ /\ a.cat_priority = b.cat_priority
            /\ \/ a.year < b.year
               \/ a.year = b.year /\ a.month < b.month

\* x put behind every element that does not sort after it
Insert(s, x) ==
    LET later == {p \in 1..Len(s) : KeyLess(x.key, s[p].key)}
        at == IF later = {} THEN Len(s) + 1
              ELSE CHOOSE p \in later : \A q \in later : p <= q
    IN  SubSeq(s, 1, at - 1) \o <<x>> \o SubSeq(s, at, Len(s))

\* the multi-column sort_values: a stable sort (lexsort)
RECURSIVE SortValues(_)
SortValues(s) ==
    IF s = <<>> THEN <<>>
    ELSE Insert(SortValues(SubSeq(s, 1, Len(s) - 1)), s[Len(s)])

\* the merge with how='inner': rows without a partner are dropped
RECURSIVE MergeInner(_, _)
MergeInner(left, sort_df) ==
    IF left = <<>> THEN <<>>
    ELSE LET l == Head(left)
             partners == SelectSeq(sort_df, LAMBDA r : r.index = l._sort_idx)
         IN  [j \in 1..Len(partners) |-> [row |-> l.row, key |-> partners[j].key]]
             \o MergeInner(Tail(left), sort_df)

\* df_with_sort.merge(sort_df, left_on='_sort_idx', right_on='index', how='left'):
\* the left rows in their order, each with the keys of the sort_df rows whose
\* 'index' equals its '_sort_idx', or with NaN keys when there is none
RECURSIVE Merge(_, _)
Merge(left, sort_df) ==
    IF left = <<>> THEN <<>>
    ELSE LET l == Head(left)
             partners == SelectSeq(sort_df, LAMBDA r : r.index = l._sort_idx)
         IN  (IF partners = <<>> THEN << [row |-> l.row, key |-> NaNKey] >>
              ELSE [j \in 1..Len(partners) |->
                        [row |-> l.row, key |-> partners[j].key]])
             \o Merge(Tail(left), sort_df)

SortCols == {"index", "cat_priority", "year", "month", "category"}

sort_holdings(df, etf_code) ==
    IF df.rows = <<>> THEN df
    ELSE
        LET n == Len(df.rows)
            \* for idx, row in df.iterrows(): 'index' is the row's index label
            sort_data == [i \in 1..n |->
                            With(df.rows[i], LAMBDA row :
                                [index |-> row.label,
                                 key |-> SortKey(RowName(df, row), etf_code)])]
            \* df_with_sort['_sort_idx'] = range(len(df)): the row's position
            df_with_sort == [i \in 1..n |-> [row |-> df.rows[i], _sort_idx |-> i - 1]]
        IN  With(sort_data, LAMBDA sort_df :
            With(Merge(df_with_sort, sort_df), LAMBDA merged :
            With(SortValues(merged), LAMBDA df_sorted :
                [cols |-> ((df.cols \cup {"_sort_idx"}) \cup SortCols)
                            \ ({"_sort_idx"} \cup SortCols),
                 rows |-> [i \in 1..Len(df_sorted) |-> df_sorted[i].row]])))

(***************************************************************************)
(* print_summary                                                           *)
(***************************************************************************)
\* Series.sum(): missing values are skipped
RECURSIVE SumSkipNa(_)
SumSkipNa(cells) ==
    IF cells = <<>> THEN 0
    ELSE (IF Head(cells) = <<>> THEN 0 ELSE Head(cells)[1]) + SumSkipNa(Tail(cells))

\* the category names print_summary searches the names for
CatText(cat) ==
    CASE cat = "capesize" -> kw_capesize [] cat = "panamax" -> kw_panamax
      [] cat = "supramax" -> kw_supramax [] cat = "td3c" -> kw_td3c
      [] cat = "td20" -> kw_td20 [] cat = "cash" -> kw_cash
      [] cat = "invesco" -> kw_invesco

SummaryCategories(etf_code) ==
    IF etf_code = "BDRY" THEN <<"capesize", "panamax", "supramax", "cash", "invesco">>
    ELSE <<"td3c", "td20", "cash", "invesco">>

NoSummary == [total_value |-> 0, lines |-> <<>>]

\* the lines printed: per category with at least one row, the rows it sums
\* (by their labels) and their sum; the percentage printed is cat_value /
\* total_value * 100, formatted from these two
print_summary(df, etf_code) ==
    LET cells(rows) == [i \in 1..Len(rows) |-> rows[i].MarketValue]
        categories == SummaryCategories(etf_code)
        \* mask = df['Name'].str.lower().str.contains(cat, na=False); df[mask]
        line(cat) ==
            With(SelectSeq(df.rows, LAMBDA r : Contains(Lower(r.Name), CatText(cat))),
                 LAMBDA cat_df :
                    [cat |-> cat,
                     rows |-> {cat_df[i].label : i \in 1..Len(cat_df)},
                     cat_value |-> SumSkipNa(cells(cat_df))])
    IN  [total_value |-> SumSkipNa(cells(df.rows)),
         lines |-> SelectSeq([k \in 1..Len(categories) |-> line(categories[k])],
                             LAMBDA l : l.rows # {})]

(***************************************************************************)
(* process_etf and main of update_etf_holdings.py                          *)
(***************************************************************************)
\* df[df['Account'].str.upper() == etf_code]: the rows keep their index labels
FilterAccount(df, etf_code) ==
    [cols |-> df.cols,
     rows |-> SelectSeq(df.rows, LAMBDA r : Upper(r.Account) = etf_code)]

\* rename(columns=column_mapping), then the desired columns that are there
SelectColumns(df) ==
    [cols |-> desired_cols \cap {column_mapping(c) : c \in df.cols},
     rows |-> [i \in 1..Len(df.rows) |->
                 [label |-> df.rows[i].label,
                  Name |-> df.rows[i].Name,
                  MarketValue |-> df.rows[i].MarketValue]]]

\* TARGET_ETFS in its order, then the report
NextStep(etf_code) == IF etf_code = "BDRY" THEN "BWET" ELSE "report"

process_etf(etf_code) ==
    /\ pc = etf_code
    /\ pc' = NextStep(etf_code)
    /\ UNCHANGED master_df
    /\ UNCHANGED <<nameVars, csvVars>>
    /\ \E etf_df \in {FilterAccount(master_df, etf_code)} :
          \/ \* no holdings found: return False
             /\ etf_df.rows = <<>>
             /\ result' = [result EXCEPT ![etf_code] = "False"]
             /\ UNCHANGED <<etf_in, out_file, summary>>
          \/ /\ etf_df.rows # <<>>
             /\ \E selected \in {SelectColumns(etf_df)} :
                \E sorted \in {sort_holdings(selected, etf_code)} :
                   /\ etf_in' = [etf_in EXCEPT ![etf_code] = selected]
                   \* etf_df.to_csv(output_file, index=False)
                   /\ out_file' = [out_file EXCEPT ![etf_code] = sorted]
                   /\ \/ \* summarised: return True
                         /\ "Market_Value" \in sorted.cols
                         /\ summary' = [summary EXCEPT
                                          ![etf_code] = print_summary(sorted, etf_code)]
                         /\ result' = [result EXCEPT ![etf_code] = "True"]
                      \/ \* df['Market_Value'] raises KeyError in print_summary,
                         \* the except clause prints it: return False
                         /\ "Market_Value" \notin sorted.cols
                         /\ result' = [result EXCEPT ![etf_code] = "False"]
                         /\ UNCHANGED summary

\* The master tables the download can return: read_csv labels the rows 0..n-1.
MaxRows == 3

Accounts == {"BDRY", "bwet"}

HoldingNames ==
    { Concat(<< <<"C","a","p","e","s","i","z","e">>, <<" ">>, <<"d","e","c">>, <<" ">>, <<"2","6">> >>),
      Concat(<< <<"C","a","p","e","s","i","z","e">>, <<" ">>, <<"M","a","r">>, <<" ">>, <<"2","6">> >>),
      Concat(<< <<"C","a","p","e","s","i","z","e">>, <<" ">>, kw_cash >>),
      Concat(<< <<"T","D","3","C">>, <<" ">>, <<"M","a","r">>, <<" ">>, <<"2","6">> >>) }

Cells == {<<>>, <<100>>}

\* df is a table read_csv can return: at most MaxRows rows, labelled 0..n-1,
\* with or without the MarketValue column
IsMaster(df) ==
    \E c \in {MasterCols, MasterCols \ {"MarketValue"}} :
    \E n \in 0..MaxRows :
    \E rs \in [1..n -> [Account : Accounts, Name : HoldingNames,
                        MarketValue : IF "MarketValue" \in c THEN Cells ELSE {<<>>}]] :
        df = [cols |-> c,
              rows |-> [i \in 1..n |->
                          [label |-> i - 1, Account |-> rs[i].Account,
                           Name |-> rs[i].Name, MarketValue |-> rs[i].MarketValue]]]

EtfIdle ==
    /\ pc = "download"
    /\ master_df = NoTable
    /\ etf_in = [e \in EtfCodes |-> NoTable]
    /\ out_file = [e \in EtfCodes |-> NoTable]
    /\ summary = [e \in EtfCodes |-> NoSummary]
    /\ result = [e \in EtfCodes |-> "pending"]

\* download_master_csv returned a table
download_ok ==
    /\ pc = "download"
    /\ IsMaster(master_df')
    /\ pc' = "BDRY"
    /\ UNCHANGED <<etf_in, out_file, summary, result>>
    /\ UNCHANGED <<nameVars, csvVars>>

\* download_master_csv returned None: main returns 1
download_failed ==
    /\ pc = "download"
    /\ pc' = "exit 1"
    /\ UNCHANGED <<master_df, etf_in, out_file, summary, result>>
    /\ UNCHANGED <<nameVars, csvVars>>

\* the end of main: 0 when every fund was updated, else 1
main_return ==
    /\ pc = "report"
    /\ LET success_count == Cardinality({e \in EtfCodes : result[e] = "True"})
       IN  pc' = IF success_count < Cardinality(EtfCodes) THEN "exit 1" ELSE "exit 0"
    /\ UNCHANGED <<master_df, etf_in, out_file, summary, result>>
    /\ UNCHANGED <<nameVars, csvVars>>

InitName ==
    /\ IsName(arg_name)
    /\ arg_etf \in EtfCodes
    /\ ret_cat = CatPending
    /\ ret_date = DatePending
    /\ EtfIdle
    /\ CsvIdle

NextName == CallCategorize \/ CallExtract

SpecName == InitName /\ [][NextName]_vars

InitEtf == NameIdle /\ EtfIdle /\ CsvIdle

NextEtf ==
    \/ download_ok
    \/ download_failed
    \/ \E e \in EtfCodes : process_etf(e)
    \/ main_return

SpecEtf == InitEtf /\ [][NextEtf]_vars

InitCsv == NameIdle /\ EtfIdle /\ CsvIdle

NextCsv == \E new_data \in NewData : update_csv(new_data)

SpecCsv == InitCsv /\ [][NextCsv]_vars

(***************************************************************************)
(* Properties of categorize_holding and extract_month_year (SpecName)      *)
(***************************************************************************)
\* name contains kw, whatever the case of its letters
ContainsCI(name, kw) == Contains(Lower(name), kw)

\* the keywords of the fund's own categories
FundKeywords(etf_code) ==
    IF etf_code = "BWET" THEN {kw_td3c, kw_td3c_long, kw_td20, kw_td20_long}
    ELSE {kw_capesize, kw_panamax, kw_supramax}

\* C4: categorize_holding returns, for every name and fund code, a label of
\* CATEGORY_ORDER with that label's priority; a name with one of the fund's
\* size-class or route keywords is never 'other'; a name with none of the
\* fund's keywords, nor cash, nor invesco, is 'other' with priority 99 (990
\* tenths), which is above every other category's priority.
C4_CategorizeTotalAndCovering ==
    ret_cat # CatPending =>
        \E found \in {{kw \in FundKeywords(arg_etf) \cup {kw_cash, kw_invesco} :
                          ContainsCI(arg_name, kw)}} :
            /\ ret_cat.label \in DOMAIN CATEGORY_ORDER
            /\ ret_cat.priority = CATEGORY_ORDER[ret_cat.label]
            /\ found \cap FundKeywords(arg_etf) # {} => ret_cat.label # "other"
            /\ found = {}
                  => /\ ret_cat.label = "other"
                     /\ ret_cat.priority = 990
                     /\ \A l \in DOMAIN CATEGORY_ORDER \ {"other"} :
                            CATEGORY_ORDER[l] < ret_cat.priority

\* C4's case: a capitalised size-class keyword and a keyword-free name were
\* both categorized (here: the keyword case)
C4_Witness ==
    /\ ret_cat # CatPending
    /\ arg_etf = "BDRY"
    /\ arg_name = <<"C","a","p","e","s","i","z","e">>
    /\ ret_cat.label = "capesize"

\* the fixed order of the tests, as <<label, keywords>>
TestOrder(etf_code) ==
    IF etf_code = "BWET"
    THEN << <<"td3c", {kw_td3c, kw_td3c_long}>>, <<"td20", {kw_td20, kw_td20_long}>>,
            <<"cash", {kw_cash}>>, <<"invesco", {kw_invesco}>> >>
    ELSE << <<"capesize", {kw_capesize}>>, <<"panamax", {kw_panamax}>>,
            <<"supramax", {kw_supramax}>>, <<"cash", {kw_cash}>>,
            <<"invesco", {kw_invesco}>> >>

\* the positions in TestOrder whose keywords the name contains
Hits(name, etf_code) ==
    With(Lower(name), LAMBDA low :
        {k \in 1..Len(TestOrder(etf_code)) :
            \E kw \in TestOrder(etf_code)[k][2] : Contains(low, kw)})

\* C5: a name with keywords of more than one category gets the category
\* tested first in the fixed order (size classes or routes, then cash, then
\* invesco).
C5_FirstMatchWins ==
    ret_cat # CatPending =>
        \E hits \in {Hits(arg_name, arg_etf)} :
            Cardinality(hits) >= 2 =>
                LET first == CHOOSE k \in hits : \A j \in hits : k <= j
                IN  ret_cat.label = TestOrder(arg_etf)[first][1]

\* C5's case: a route keyword together with cash and invesco
C5_Witness ==
    /\ ret_cat.label = "td20"
    /\ arg_etf = "BWET"
    /\ ContainsCI(arg_name, kw_cash)
    /\ ContainsCI(arg_name, kw_invesco)

\* C6 as claimed: whenever the name holds a month+year reference, the result
\* is the first reference's month, in 1..12, and a 4-digit year, a 2-digit
\* year yy given as 2000+yy and a 4-digit year unchanged.
C6_DatedNameGivesFourDigitYear ==
    (ret_date # DatePending /\ Search(Lower(arg_name)) # NoMatch) =>
        LET ref == Search(Lower(arg_name)) IN
        /\ ret_date.month = MONTH_MAP[ref[1]]
        /\ ret_date.month \in 1..12
        /\ ret_date.year \in 1000..9999
        /\ Len(ref[2]) = 2 => ret_date.year = 2000 + ParseInt(ref[2])
        /\ Len(ref[2]) = 4 => ret_date.year = ParseInt(ref[2])

\* the first half of C7, which holds: the sentinel (99, 9999) is after every
\* pair returned for a dated name in the sorter's (year, month) order, and a
\* name without a reference gets the sentinel
SentinelAfterDated ==
    ret_date # DatePending =>
        IF Search(Lower(arg_name)) = NoMatch THEN ret_date = NoDate
        ELSE \/ ret_date.year < NoDate.year
             \/ ret_date.year = NoDate.year /\ ret_date.month < NoDate.month

(***************************************************************************)
(* Properties of sort_holdings, process_etf and print_summary (SpecEtf)    *)
(***************************************************************************)
\* process_etf(e) ran sort_holdings and saved its result
Sorted(e) == etf_in[e].rows # <<>>

\* the triple of a row, from the row's own name
OwnKey(row, e) == SortKey(row.Name, e)

\* the position in rows of the row labelled l
PosOf(rows, l) == CHOOSE i \in 1..Len(rows) : rows[i].label = l

\* the index labels of the table are not 0..n-1
Relabelled(df) == \E i \in 1..Len(df.rows) : df.rows[i].label # i - 1

\* C1 as claimed: the rows sort_holdings returns are in ascending order of
\* (category priority, year, month), each row's triple taken from its own
\* name, also for the filtered table process_etf passes in.
C1_OutputAscendingByOwnKey ==
    \A e \in EtfCodes :
        Sorted(e) =>
            \A i, j \in 1..Len(out_file[e].rows) :
                i < j => ~KeyLess(OwnKey(out_file[e].rows[j], e),
                                  OwnKey(out_file[e].rows[i], e))

\* C2: the table sort_holdings returns holds every input row exactly once,
\* has the input's length and exactly the input's columns.
C2_OutputIsPermutation ==
    \A e \in EtfCodes :
        Sorted(e) =>
            /\ Len(out_file[e].rows) = Len(etf_in[e].rows)
            /\ out_file[e].cols = etf_in[e].cols
            /\ \A i \in 1..Len(etf_in[e].rows) :
                  Cardinality({j \in 1..Len(out_file[e].rows) :
                                  out_file[e].rows[j] = etf_in[e].rows[i]}) = 1

\* C2's case: a relabelled table of two rows came back in another order
C2_Witness ==
    \E e \in EtfCodes :
        /\ Len(etf_in[e].rows) = 2
        /\ Relabelled(etf_in[e])
        /\ out_file[e].rows # etf_in[e].rows

\* C3 as claimed: two input rows with equal triples keep their relative order.
C3_EqualKeysKeepOrder ==
    \A e \in EtfCodes :
        Sorted(e) =>
            \A i, j \in 1..Len(etf_in[e].rows) :
                (i < j /\ OwnKey(etf_in[e].rows[i], e) = OwnKey(etf_in[e].rows[j], e))
                    => PosOf(out_file[e].rows, etf_in[e].rows[i].label)
                           < PosOf(out_file[e].rows, etf_in[e].rows[j].label)

\* C7 as claimed, the sorter's half: within one category every undated row
\* is placed after every dated row.
C7_UndatedAfterDatedInCategory ==
    \A e \in EtfCodes :
        Sorted(e) =>
            \A i, j \in 1..Len(out_file[e].rows) :
                (/\ i < j
                 /\ categorize_holding(out_file[e].rows[i].Name, e)
                        = categorize_holding(out_file[e].rows[j].Name, e))
                    => ~(/\ extract_month_year(out_file[e].rows[i].Name) = NoDate
                         /\ extract_month_year(out_file[e].rows[j].Name) # NoDate)

\* C8 as claimed: processing a fund one of whose rows lacks its market value
\* ends in a fault; it does not succeed with the value left out of the sums.
C8_MissingValueIsAFault ==
    \A e \in EtfCodes :
        (/\ result[e] # "pending"
         /\ \E i \in 1..Len(etf_in[e].rows) : etf_in[e].rows[i].MarketValue = <<>>)
            => result[e] = "False"

\* the sum of the category values reported
RECURSIVE SumValues(_)
SumValues(lines) ==
    IF lines = <<>> THEN 0 ELSE Head(lines).cat_value + SumValues(Tail(lines))

\* C9 as claimed: every category print_summary reports sums exactly the rows
\* categorize_holding assigns to it, so no row counts twice and the category
\* values add up to no more than the total market value.
C9_SummaryIsViewOfCategories ==
    \A e \in EtfCodes :
        result[e] = "True" =>
            /\ \A k \in 1..Len(summary[e].lines) :
                  summary[e].lines[k].rows =
                      { out_file[e].rows[i].label : i \in
                          { i \in 1..Len(out_file[e].rows) :
                              categorize_holding(out_file[e].rows[i].Name, e).label
                                  = summary[e].lines[k].cat } }
            /\ SumValues(summary[e].lines) <= summary[e].total_value

(***************************************************************************)
(* Properties of update_csv (SpecCsv)                                      *)
(***************************************************************************)
\* C10 as claimed: after any sequence of update_csv calls from no file, the
\* file holds at most one row per date, the row of a date is from the most
\* recent call that supplied the date, no date supplied earlier is lost, and
\* the rows are in ascending chronological order.
C10_FileUniqueLatestChronological ==
    csv_file.exists =>
        LET rows == csv_file.rows IN
        /\ \A i, j \in 1..Len(rows) :
              i < j => DateLess(ToDatetime(rows[i].Date), ToDatetime(rows[j].Date))
        /\ \A i \in 1..Len(rows) : rows[i].Index \in supplied[rows[i].Date]
        /\ \A t \in DateTexts :
              supplied[t] # {} => \E i \in 1..Len(rows) : rows[i].Date = t

\* what does hold: from the second call on the file is as C10 says
FileGoodAfterSecondCall ==
    n_calls >= 2 => C10_FileUniqueLatestChronological

====
